---- MODULE Spec2Model ----
(***************************************************************************)
(* Model of src/lib/plotting_tools.py: the table slicing / formatting      *)
(* helpers gen_plotly_dict, preprocess_data, create_dropdown_waterfall,    *)
(* extract_daterange, create_date_ranges and plot_compare_timeframes.      *)
(*                                                                         *)
(* Strings (column names, the dropdown tag) are sequences of characters,   *)
(* so that Python's `tag in item` is substring containment.  Python lists  *)
(* are objects on a heap: a parameter is a reference, `del l[i]` changes   *)
(* the object every holder of the reference sees, list(l) allocates a new  *)
(* object.  Cell values are floats in tenths (5 is 0.5), NaN, or a         *)
(* non-numeric string.  datetime values are (year, month, day) records     *)
(* with the proleptic Gregorian ordinal arithmetic of Python's datetime.   *)
(***************************************************************************)
EXTENDS Integers, Sequences, FiniteSets, TLC

VARIABLES heap, df, ret

vars == <<heap, df, ret>>

(***************************************************************************)
(* Bounds of the model.                                                    *)
(***************************************************************************)
MaxRows == 2
MaxSel == 2
MaxOffset == 2
MaxLabels == 3

(***************************************************************************)
(* Values.                                                                 *)
(***************************************************************************)
\* a float (in tenths), the float nan, the decimal text of a float (what
\* numpy makes of a number stored in a string array), the text 'nan', and a
\* text that is no number (a date string such as "2021-01-01")
Num(v) == [kind |-> "num", v |-> v]
NaN == [kind |-> "nan", v |-> 0]
NumText(v) == [kind |-> "numtext", v |-> v]
NanText == [kind |-> "nantext", v |-> 0]
DateText == [kind |-> "text", v |-> 0]

\* precision=None is the empty option, precision=n is <<n>>
NoPrecision == <<>>
Precisions == {NoPrecision, <<0>>}

\* column names and tags: strings over the characters "a" and "d"
Names == {<<"d">>, <<"a", "d">>, <<"a">>}

\* x == y of pandas / numpy on cells: NaN equals nothing, itself included
CellEq(x, y) == x.kind # "nan" /\ y.kind # "nan" /\ x = y

\* x >= y of pandas on float cells: any comparison with NaN is False
CellGe(x, y) == x.kind = "num" /\ y.kind = "num" /\ x.v >= y.v

\* Python's `t in s` on strings: t is a contiguous substring of s
StrIn(t, s) ==
    \E i \in 0..(Len(s) - Len(t)) : SubSeq(s, i + 1, i + Len(t)) = t

\* np.around of one float (in tenths) to p in {0, 1} decimals: rint, ties to even
Around(x, p) ==
    IF x.kind # "num" \/ p >= 1 THEN x
    ELSE LET q == x.v \div 10
             r == x.v % 10
         IN  Num(10 * (IF r > 5 \/ (r = 5 /\ q % 2 = 1) THEN q + 1 ELSE q))

\* np.asarray(list): a list holding any string becomes an array of strings
AsArray(l) ==
    IF \E i \in 1..Len(l) : l[i].kind \in {"numtext", "nantext", "text"}
    THEN [i \in 1..Len(l) |->
            IF l[i].kind = "num" THEN NumText(l[i].v)
            ELSE IF l[i].kind = "nan" THEN NanText
            ELSE l[i]]
    ELSE l

\* float(x) of one array element, where it is defined
CanFloat(x) == x.kind # "text"
AsFloat(x) ==
    IF x.kind = "numtext" THEN Num(x.v)
    ELSE IF x.kind = "nantext" THEN NaN
    ELSE x

\* the list l without its element at 0-based position i (del l[i], 0 <= i < len)
DelAt(l, i) == SubSeq(l, 1, i) \o SubSeq(l, i + 2, Len(l))

(***************************************************************************)
(* The heap: references to list objects.  Alloc is list(...), a new object *)
(* holding the elements of the old one.                                    *)
(***************************************************************************)
CallerRefs == {"x_labels", "initial_data"}

Alloc(h, ref, elems) == (ref :> elems) @@ h

\* y_values = list(initial_data): the reference the name y_values is bound to
YValuesRef(data) == "y_values"

\* the first element of [i for i, item in enumerate(x_labels) if dropdown_tag in item]
Matches(labels, tag) == {i \in 0..(Len(labels) - 1) : StrIn(tag, labels[i + 1])}
FirstMatch(labels, tag) ==
    CHOOSE i \in Matches(labels, tag) : \A j \in Matches(labels, tag) : i <= j

(***************************************************************************)
(* preprocess_data(initial_data, x_labels, dropdown_tag, precision), lines *)
(* 57-70; data and labels are the references passed by the caller.  The    *)
(* result carries the heap as the call leaves it.                          *)
(***************************************************************************)
preprocess_data(h, data, labels, tag, precision) ==
    LET yref == YValuesRef(data)
        h1 == IF yref = data THEN h ELSE Alloc(h, yref, h[data])
    IN  IF Matches(h1[labels], tag) = {}
        THEN [status |-> "IndexError", line |-> 60, heap |-> h1, value |-> <<>>]
        ELSE
        LET indices == FirstMatch(h1[labels], tag)
            h2 == [h1 EXCEPT ![labels] = DelAt(h1[labels], indices)]
        IN  IF indices >= Len(h2[yref])
            THEN [status |-> "IndexError", line |-> 63, heap |-> h2, value |-> <<>>]
            ELSE
            LET h3 == [h2 EXCEPT ![yref] = DelAt(h2[yref], indices)]
                arr == AsArray(h3[yref])
            IN  IF precision # NoPrecision
                   /\ \E i \in 1..Len(arr) : ~CanFloat(arr[i])
                THEN [status |-> "ValueError", line |-> 66, heap |-> h3, value |-> <<>>]
                ELSE [status |-> "ok", line |-> 70, heap |-> h3,
                      value |-> << h3[labels], h3[yref],
                                   IF precision # NoPrecision
                                   THEN [i \in 1..Len(arr) |->
                                            Around(AsFloat(arr[i]), precision[1])]
                                   ELSE arr >>]

(***************************************************************************)
(* Python's datetime: proleptic Gregorian ordinals (datetime.py).          *)
(***************************************************************************)
MINYEAR == 1
MAXYEAR == 9999
MAXORDINAL == 3652059
MAXDELTADAYS == 999999999
DI400Y == 146097
DI100Y == 36524
DI4Y == 1461

Date(y, m, d) == [year |-> y, month |-> m, day |-> d]

IsLeap(y) == y % 4 = 0 /\ (y % 100 # 0 \/ y % 400 = 0)

DaysInMonth(y, m) ==
    IF m = 2 THEN (IF IsLeap(y) THEN 29 ELSE 28)
    ELSE IF m \in {4, 6, 9, 11} THEN 30 ELSE 31

DaysBeforeYear(y) ==
    (y - 1) * 365 + ((y - 1) \div 4) - ((y - 1) \div 100) + ((y - 1) \div 400)

\* _DAYS_BEFORE_MONTH, and the leap day after February
DaysBeforeMonth(y, m) ==
    <<0, 31, 59, 90, 120, 151, 181, 212, 243, 273, 304, 334>>[m]
        + (IF m > 2 /\ IsLeap(y) THEN 1 ELSE 0)

\* datetime.toordinal(): 0001-01-01 is day 1
ToOrdinal(dt) == DaysBeforeYear(dt.year) + DaysBeforeMonth(dt.year, dt.month) + dt.day

\* the month and day of day n (0-based) of a year, as _ord2ymd finds them:
\* an estimate of the month that is exact or one too large
MonthDay(year, n, month) ==
    IF DaysBeforeMonth(year, month) > n
    THEN Date(year, month - 1, n - DaysBeforeMonth(year, month - 1) + 1)
    ELSE Date(year, month, n - DaysBeforeMonth(year, month) + 1)

YearDay(n400, n100, n4, n1, n) ==
    IF n1 = 4 \/ n100 = 4
    THEN Date(n400 * 400 + n100 * 100 + n4 * 4 + n1, 12, 31)
    ELSE MonthDay(n400 * 400 + 1 + n100 * 100 + n4 * 4 + n1, n, (n + 50) \div 32)

\* datetime.fromordinal(n), 1 <= n <= MAXORDINAL (_ord2ymd)
FromOrdinal(ord) ==
    YearDay((ord - 1) \div DI400Y,
            ((ord - 1) % DI400Y) \div DI100Y,
            (((ord - 1) % DI400Y) % DI100Y) \div DI4Y,
            ((((ord - 1) % DI400Y) % DI100Y) % DI4Y) \div 365,
            ((((ord - 1) % DI400Y) % DI100Y) % DI4Y) % 365)

\* datetime.strptime(s, '%Y-%m-%d') succeeds on s = "YYYY-MM-DD"
ParsesAsDate(s) ==
    /\ s.year \in MINYEAR..MAXYEAR
    /\ s.month \in 1..12
    /\ s.day \in 1..DaysInMonth(s.year, s.month)

\* datetime + timedelta(days): OverflowError outside date.min .. date.max
CanAddDays(dt, days) ==
    /\ days \in (-MAXDELTADAYS)..MAXDELTADAYS
    /\ ToOrdinal(dt) + days \in 1..MAXORDINAL
AddDays(dt, days) == FromOrdinal(ToOrdinal(dt) + days)

(***************************************************************************)
(* Tables (pandas DataFrame): column names, a date index that may repeat,  *)
(* and one list of cells per row.                                          *)
(***************************************************************************)
Table(c, i, r) == [columns |-> c, index |-> i, rows |-> r]

\* position (1-based) of the column called name; column names are unique
ColPos(t, name) == CHOOSE j \in 1..Len(t.columns) : t.columns[j] = name
HasCol(t, name) == \E j \in 1..Len(t.columns) : t.columns[j] = name

\* the positions at which mask is True, in increasing order
RECURSIVE MaskPositions(_, _)
MaskPositions(mask, n) ==
    IF n = 0 THEN <<>>
    ELSE IF mask[n] THEN Append(MaskPositions(mask, n - 1), n)
    ELSE MaskPositions(mask, n - 1)

\* df.loc[mask] / df[mask]: a new table of the rows at which mask is True
Loc(t, mask) ==
    LET pos == MaskPositions(mask, Len(mask))
    IN  Table(t.columns,
              [k \in 1..Len(pos) |-> t.index[pos[k]]],
              [k \in 1..Len(pos) |-> t.rows[pos[k]]])

\* df.drop(name, axis=1): a new table without the column called name
DropCol(t, name) ==
    LET j == ColPos(t, name)
    IN  Table(DelAt(t.columns, j - 1), t.index,
              [k \in 1..Len(t.rows) |-> DelAt(t.rows[k], j - 1)])

\* df[name]: the cells of one column, as a Series (index, values)
Column(t, name) ==
    [k \in 1..Len(t.rows) |-> [index |-> t.index[k], value |-> t.rows[k][ColPos(t, name)]]]

(***************************************************************************)
(* extract_daterange(df, start_date, end_date), lines 170-172.             *)
(***************************************************************************)
DateMaskClosed(t, start_date, end_date) ==
    [k \in 1..Len(t.index) |->
        /\ ToOrdinal(t.index[k]) >= ToOrdinal(start_date)
        /\ ToOrdinal(t.index[k]) <= ToOrdinal(end_date)]

DateMask(t, start_date, end_date) ==
    [k \in 1..Len(t.index) |->
        /\ ToOrdinal(t.index[k]) > ToOrdinal(start_date)
        /\ ToOrdinal(t.index[k]) <= ToOrdinal(end_date)]

extract_daterange(t, start_date, end_date) == Loc(t, DateMask(t, start_date, end_date))

(***************************************************************************)
(* create_date_ranges(target_date, date_range), lines 194-200.             *)
(***************************************************************************)
\* the same with end_date_2 one offset after the target date
create_date_ranges_short(target_date, date_range) ==
    IF ~ParsesAsDate(target_date)
    THEN [status |-> "ValueError", line |-> 194, value |-> <<>>]
    ELSE IF ~CanAddDays(target_date, -date_range)
    THEN [status |-> "OverflowError", line |-> 195, value |-> <<>>]
    ELSE IF ~CanAddDays(target_date, date_range)
    THEN [status |-> "OverflowError", line |-> 198, value |-> <<>>]
    ELSE [status |-> "ok", line |-> 200,
          value |-> << AddDays(target_date, -date_range),
                       target_date,
                       AddDays(target_date, date_range),
                       AddDays(target_date, date_range) >>]

create_date_ranges(target_date, date_range) ==
    IF ~ParsesAsDate(target_date)
    THEN [status |-> "ValueError", line |-> 194, value |-> <<>>]
    ELSE IF ~CanAddDays(target_date, -date_range)
    THEN [status |-> "OverflowError", line |-> 195, value |-> <<>>]
    ELSE IF ~CanAddDays(target_date, date_range)
    THEN [status |-> "OverflowError", line |-> 198, value |-> <<>>]
    ELSE IF ~CanAddDays(target_date, date_range * 2)
    THEN [status |-> "OverflowError", line |-> 199, value |-> <<>>]
    ELSE [status |-> "ok", line |-> 200,
          value |-> << AddDays(target_date, -date_range),
                       target_date,
                       AddDays(target_date, date_range),
                       AddDays(target_date, date_range * 2) >>]

(***************************************************************************)
(* gen_plotly_dict(selection_list, df, dropdown_tag, precision), lines     *)
(* 23-36.                                                                  *)
(***************************************************************************)
\* the same slice with the dropdown column left in
SelectedValueKeepingTag(t, tag, selection) ==
    Loc(t, [k \in 1..Len(t.rows) |-> CellEq(t.rows[k][ColPos(t, tag)], selection)]).rows

\* df[df[dropdown_tag] == selection].drop(dropdown_tag, axis=1).values (line 26)
SelectedValue(t, tag, selection) ==
    DropCol(Loc(t, [k \in 1..Len(t.rows) |->
                      CellEq(t.rows[k][ColPos(t, tag)], selection)]), tag).rows

\* selected_value.astype(float) is defined (line 29)
CanFloatAll(values) ==
    \A k \in 1..Len(values) : \A j \in 1..Len(values[k]) : CanFloat(values[k][j])

\* lines 28-31
TextValues(values, precision) ==
    IF precision # NoPrecision
    THEN [k \in 1..Len(values) |->
            [j \in 1..Len(values[k]) |-> Around(AsFloat(values[k][j]), precision[1])]]
    ELSE values

\* lines 26-33: the dict built for one selection
TempDict(t, tag, selection, precision) ==
    [y |-> SelectedValue(t, tag, selection),
     text |-> TextValues(SelectedValue(t, tag, selection), precision),
     label |-> selection,
     method |-> "restyle"]

\* the loop of lines 24-35 from the n-th selection on, dropdown_ar so far in acc
RECURSIVE GenLoop(_, _, _, _, _, _)
RECURSIVE GenLoopSkippingEmpty(_, _, _, _, _, _)
GenLoop(selection_list, t, tag, precision, n, acc) ==
    IF n > Len(selection_list)
    THEN [status |-> "ok", line |-> 36, value |-> acc]
    ELSE IF ~HasCol(t, tag)
    THEN [status |-> "KeyError", line |-> 26, value |-> <<>>]
    ELSE IF precision # NoPrecision
            /\ ~CanFloatAll(SelectedValue(t, tag, selection_list[n]))
    THEN [status |-> "ValueError", line |-> 29, value |-> <<>>]
    ELSE GenLoop(selection_list, t, tag, precision, n + 1,
                 Append(acc, TempDict(t, tag, selection_list[n], precision)))

\* the loop with no dict appended for a selection that matches no row
GenLoopSkippingEmpty(selection_list, t, tag, precision, n, acc) ==
    IF n > Len(selection_list)
    THEN [status |-> "ok", line |-> 36, value |-> acc]
    ELSE IF ~HasCol(t, tag)
    THEN [status |-> "KeyError", line |-> 26, value |-> <<>>]
    ELSE IF precision # NoPrecision
            /\ ~CanFloatAll(SelectedValue(t, tag, selection_list[n]))
    THEN [status |-> "ValueError", line |-> 29, value |-> <<>>]
    ELSE GenLoopSkippingEmpty(selection_list, t, tag, precision, n + 1,
            IF SelectedValue(t, tag, selection_list[n]) = <<>> THEN acc
            ELSE Append(acc, TempDict(t, tag, selection_list[n], precision)))

gen_plotly_dict_skipping_empty(selection_list, t, tag, precision) ==
    GenLoopSkippingEmpty(selection_list, t, tag, precision, 1, <<>>)

gen_plotly_dict(selection_list, t, tag, precision) ==
    GenLoop(selection_list, t, tag, precision, 1, <<>>)

(***************************************************************************)
(* create_dropdown_waterfall(df, dropdown_tag, measures, initial_data,     *)
(* precision, title), lines 145-153.  measures and title go to the         *)
(* renderer as they came.  The result carries the table as the call        *)
(* leaves it and what plot_waterfall was handed.                           *)
(***************************************************************************)
\* line 146: list(df[dropdown_tag].values)
DropdownList(t, tag) == [k \in 1..Len(t.rows) |-> t.rows[k][ColPos(t, tag)]]

\* columns_ar = df.columns: the table's own column list
ColumnsArAlias(columns) == columns

\* line 150: columns_ar = list(df.columns), the reference columns_ar is bound to
ColumnsArRef(columns) == "columns_ar"

create_dropdown_waterfall(t, tag, initial_data, precision) ==
    IF ~HasCol(t, tag)
    THEN [status |-> "KeyError", line |-> 146, df |-> t, plot |-> <<>>]
    ELSE
    LET dicts_ar == gen_plotly_dict(DropdownList(t, tag), t, tag, precision)
    IN  IF dicts_ar.status # "ok"
        THEN [status |-> dicts_ar.status, line |-> 148, df |-> t, plot |-> <<>>]
        ELSE
        LET h0 == ("df.columns" :> t.columns) @@ ("initial_data" :> initial_data)
            cref == ColumnsArRef("df.columns")
            h1 == IF cref = "df.columns" THEN h0 ELSE Alloc(h0, cref, h0["df.columns"])
            p == preprocess_data(h1, "initial_data", cref, tag, precision)
            after == [t EXCEPT !.columns = p.heap["df.columns"]]
        IN  IF p.status # "ok"
            THEN [status |-> p.status, line |-> 152, df |-> after, plot |-> <<>>]
            ELSE [status |-> "ok", line |-> 153, df |-> after,
                  plot |-> << [dropdown_tag |-> tag,
                               x_labels |-> p.value[1],
                               y_values |-> p.value[2],
                               disp_values |-> p.value[3],
                               dicts_ar |-> dicts_ar.value] >>]

(***************************************************************************)
(* plot_compare_timeframes(df, date1, date2, tag, filter_dict, tag_dict,   *)
(* date_dict, bin_dict, date_labels, date_range), lines 270-283.  The      *)
(* label dictionaries hold every tag and go to the renderer as they came.  *)
(***************************************************************************)
\* lines 277-278 / 280-281 and the dropna() of line 283
CanCompare(series) == \A k \in 1..Len(series) : series[k].value.kind \in {"num", "nan"}

RECURSIVE KeepSeries(_, _, _)
KeepSeries(series, keep, n) ==
    IF n = 0 THEN <<>>
    ELSE IF keep[n] THEN Append(KeepSeries(series, keep, n - 1), series[n])
    ELSE KeepSeries(series, keep, n - 1)

FilterSeries(series, threshold) ==
    KeepSeries(series, [k \in 1..Len(series) |-> CellGe(series[k].value, threshold)],
               Len(series))

DropNa(series) ==
    KeepSeries(series, [k \in 1..Len(series) |-> series[k].value.kind # "nan"],
               Len(series))

\* the "before" window of date_ar
BeforeWindow(date_ar) == <<date_ar[1], date_ar[2]>>

\* the window of date_ar handed to extract_daterange (lines 271, 274)
AfterWindow(date_ar) == <<date_ar[3], date_ar[4]>>

\* lines 277-283, given the two slices of the tag's column
CompareSeries(b_tag_df, a_tag_df, threshold, date2) ==
    IF ~CanCompare(b_tag_df)
    THEN [status |-> "TypeError", line |-> 278, plot |-> <<>>]
    ELSE IF ~CanCompare(a_tag_df)
    THEN [status |-> "TypeError", line |-> 281, plot |-> <<>>]
    ELSE [status |-> "ok", line |-> 283,
          plot |-> << [x1 |-> DropNa(FilterSeries(b_tag_df, threshold)),
                       x2 |-> DropNa(FilterSeries(a_tag_df, threshold)),
                       date |-> date2] >>]

\* lines 271-283, given the two results of create_date_ranges
CompareWindows(t, date_ar_1, date_ar_2, tag, filter_dict, date2) ==
    IF date_ar_1.status # "ok"
    THEN [status |-> date_ar_1.status, line |-> 270, plot |-> <<>>]
    ELSE IF date_ar_2.status # "ok"
    THEN [status |-> date_ar_2.status, line |-> 273, plot |-> <<>>]
    ELSE IF ~HasCol(t, tag)
    THEN [status |-> "KeyError", line |-> 277, plot |-> <<>>]
    ELSE CompareSeries(
            Column(extract_daterange(t, AfterWindow(date_ar_1.value)[1],
                                     AfterWindow(date_ar_1.value)[2]), tag),
            Column(extract_daterange(t, AfterWindow(date_ar_2.value)[1],
                                     AfterWindow(date_ar_2.value)[2]), tag),
            filter_dict[tag], date2)

plot_compare_timeframes(t, date1, date2, tag, filter_dict, date_range) ==
    CompareWindows(t, create_date_ranges(date1, date_range),
                   create_date_ranges(date2, date_range), tag, filter_dict, date2)

(***************************************************************************)
(* Inputs.                                                                 *)
(***************************************************************************)
SeqsUpTo(S, n) == UNION {[1..k -> S] : k \in 0..n}

\* lists of distinct column names
ColumnLists == {<< <<"d">>, <<"a">> >>, << <<"a", "d">>, <<"d">> >>, << <<"a">>, <<"a", "d">> >>}

D0617 == Date(2021, 6, 17)
IndexDates == {Date(2021, 6, 16), D0617}

\* tables whose rows share one date and differ in their cells
CellTables ==
    UNION {{Table(c, [k \in 1..Len(r) |-> D0617], r) :
               r \in SeqsUpTo([1..Len(c) -> {Num(5), DateText}], MaxRows)} :
           c \in ColumnLists}

\* tables of one numeric column whose rows differ in date and value
DateTables ==
    {Table(<< <<"a">> >>, [k \in 1..Len(r) |-> r[k][1]], [k \in 1..Len(r) |-> <<r[k][2]>>]) :
        r \in SeqsUpTo(IndexDates \X {Num(5), Num(15), NaN}, MaxRows)}

Tables == CellTables \cup DateTables

Selectors == {Num(5), NaN, DateText}
RowCells == {Num(5), Num(15), DateText}
Thresholds == {Num(10)}

\* "YYYY-MM-DD" strings; 2021-02-30 is no date
TargetDates ==
    {Date(2021, 6, 15), Date(2020, 2, 28), Date(2020, 12, 30), Date(1, 1, 2),
     Date(9999, 12, 29),
     Date(2021, 2, 30)}
Offsets == (0..MaxOffset) \cup {10}
RangeDates == IndexDates \cup {Date(2021, 6, 15), Date(2021, 6, 18)}
PlotDates == {Date(2021, 6, 15), Date(2021, 6, 14), Date(9999, 12, 29)}

NoCall == [op |-> "none", args |-> <<>>, status |-> "ok", line |-> 0, value |-> <<>>]



(***************************************************************************)
(* The calls.  A caller makes a call with arguments of its choice, and may *)
(* then make the same call again.                                          *)
(***************************************************************************)
DoPreprocessData(tag, precision) ==
    LET p == preprocess_data(heap, "initial_data", "x_labels", tag, precision)
    IN  /\ heap' = [r \in CallerRefs |-> p.heap[r]]
        /\ ret' = [op |-> "preprocess_data",
                   args |-> [initial_data |-> heap["initial_data"],
                             x_labels |-> heap["x_labels"],
                             dropdown_tag |-> tag, precision |-> precision],
                   status |-> p.status, line |-> p.line, value |-> p.value]
        /\ UNCHANGED df

PreprocessData ==
    \E tag \in Names, precision \in Precisions : DoPreprocessData(tag, precision)

DoGenPlotlyDict(selection_list, tag, precision) ==
    LET g == gen_plotly_dict(selection_list, df, tag, precision)
    IN  /\ ret' = [op |-> "gen_plotly_dict",
                   args |-> [selection_list |-> selection_list,
                             dropdown_tag |-> tag, precision |-> precision],
                   status |-> g.status, line |-> g.line, value |-> g.value]
        /\ UNCHANGED <<heap, df>>

GenPlotlyDict ==
    \/ /\ ret = NoCall
       /\ \E selection_list \in SeqsUpTo(Selectors, MaxSel), tag \in Names,
             precision \in Precisions :
             DoGenPlotlyDict(selection_list, tag, precision)
    \/ /\ ret.op = "gen_plotly_dict"
       /\ DoGenPlotlyDict(ret.args.selection_list, ret.args.dropdown_tag,
                          ret.args.precision)

DoCreateDropdownWaterfall(tag, initial_data, precision) ==
    LET c == create_dropdown_waterfall(df, tag, initial_data, precision)
    IN  /\ df' = c.df
        /\ ret' = [op |-> "create_dropdown_waterfall",
                   args |-> [dropdown_tag |-> tag, initial_data |-> initial_data,
                             precision |-> precision],
                   status |-> c.status, line |-> c.line, value |-> c.plot]
        /\ UNCHANGED heap

CreateDropdownWaterfall ==
    \/ /\ ret = NoCall
       /\ \E tag \in Names, precision \in Precisions,
             initial_data \in {df.rows[k] : k \in 1..Len(df.rows)} \cup {<<>>} :
             DoCreateDropdownWaterfall(tag, initial_data, precision)
    \/ /\ ret.op = "create_dropdown_waterfall"
       /\ DoCreateDropdownWaterfall(ret.args.dropdown_tag, ret.args.initial_data,
                                    ret.args.precision)

DoExtractDaterange(start_date, end_date) ==
    /\ ret' = [op |-> "extract_daterange",
               args |-> [start_date |-> start_date, end_date |-> end_date],
               status |-> "ok", line |-> 172,
               value |-> extract_daterange(df, start_date, end_date)]
    /\ UNCHANGED <<heap, df>>

ExtractDaterange ==
    \/ /\ ret = NoCall
       /\ \E start_date \in RangeDates, end_date \in RangeDates :
             DoExtractDaterange(start_date, end_date)
    \/ /\ ret.op = "extract_daterange"
       /\ DoExtractDaterange(ret.args.start_date, ret.args.end_date)

DoCreateDateRanges(target_date, date_range) ==
    LET d == create_date_ranges(target_date, date_range)
    IN  /\ ret' = [op |-> "create_date_ranges",
                   args |-> [target_date |-> target_date, date_range |-> date_range],
                   status |-> d.status, line |-> d.line, value |-> d.value]
        /\ UNCHANGED <<heap, df>>

CreateDateRanges ==
    \/ /\ ret = NoCall
       /\ \E target_date \in TargetDates, date_range \in Offsets :
             DoCreateDateRanges(target_date, date_range)
    \/ /\ ret.op = "create_date_ranges"
       /\ DoCreateDateRanges(ret.args.target_date, ret.args.date_range)

DoPlotCompareTimeframes(date1, date2, tag, threshold, date_range) ==
    LET c == plot_compare_timeframes(df, date1, date2, tag,
                                     [n \in Names |-> threshold], date_range)
    IN  /\ ret' = [op |-> "plot_compare_timeframes",
                   args |-> [date1 |-> date1, date2 |-> date2, tag |-> tag,
                             threshold |-> threshold, date_range |-> date_range],
                   status |-> c.status, line |-> c.line, value |-> c.plot]
        /\ UNCHANGED <<heap, df>>

PlotCompareTimeframes ==
    \/ /\ ret = NoCall
       /\ \E date1 \in PlotDates, date2 \in PlotDates, tag \in Names,
             threshold \in Thresholds, date_range \in 0..MaxOffset :
             DoPlotCompareTimeframes(date1, date2, tag, threshold, date_range)
    \/ /\ ret.op = "plot_compare_timeframes"
       /\ DoPlotCompareTimeframes(ret.args.date1, ret.args.date2, ret.args.tag,
                                  ret.args.threshold, ret.args.date_range)

(***************************************************************************)
(* Spec: the table functions called in any order on one table.             *)
(***************************************************************************)
Init ==
    /\ df \in Tables
    /\ heap = [r \in CallerRefs |-> <<>>]
    /\ ret = NoCall

Next ==
    \/ GenPlotlyDict
    \/ CreateDropdownWaterfall
    \/ ExtractDaterange
    \/ CreateDateRanges
    \/ PlotCompareTimeframes

Spec == Init /\ [][Next]_vars

(***************************************************************************)
(* SpecReshape: preprocess_data called, any number of times, on a label    *)
(* list and a row the caller holds.                                        *)
(***************************************************************************)
InitReshape ==
    /\ df = Table(<<>>, <<>>, <<>>)
    /\ \E labels \in SeqsUpTo(Names, MaxLabels) :
       \E row \in SeqsUpTo(RowCells, Len(labels)) :
          /\ Len(row) >= Len(labels) - 1
          /\ heap = ("x_labels" :> labels) @@ ("initial_data" :> row)
    /\ ret = NoCall

NextReshape == PreprocessData

SpecReshape == InitReshape /\ [][NextReshape]_vars

(***************************************************************************)
(* Reference notions the properties are stated with: dates compared field  *)
(* by field, days counted by stepping through the calendar, the n-th       *)
(* member of a set of row positions.                                       *)
(***************************************************************************)
DateLt(a, b) ==
    \/ a.year < b.year
    \/ a.year = b.year /\ a.month < b.month
    \/ a.year = b.year /\ a.month = b.month /\ a.day < b.day
DateLe(a, b) == a = b \/ DateLt(a, b)

NextDay(d) ==
    IF d.day < DaysInMonth(d.year, d.month) THEN Date(d.year, d.month, d.day + 1)
    ELSE IF d.month < 12 THEN Date(d.year, d.month + 1, 1)
    ELSE Date(d.year + 1, 1, 1)

RECURSIVE PlusDays(_, _)
PlusDays(d, n) == IF n = 0 THEN d ELSE PlusDays(NextDay(d), n - 1)

\* the k-th smallest member of the set S of positions
Nth(S, k) == CHOOSE i \in S : Cardinality({j \in S : j < i}) = k - 1

\* the members of S in increasing order
Ascending(S) == [k \in 1..Cardinality(S) |-> Nth(S, k)]

\* the row without its cell at (1-based) position j
WithoutCell(row, j) == [m \in 1..(Len(row) - 1) |-> IF m < j THEN row[m] ELSE row[m + 1]]

(***************************************************************************)
(* C1: extract_daterange(df, start, end) returns exactly the rows of df    *)
(* whose index satisfies start < index <= end, in their original order: a  *)
(* row whose index equals start is excluded, a row whose index equals end  *)
(* is included, no row outside the interval is returned.                   *)
(***************************************************************************)
InRange(start, end) ==
    {k \in 1..Len(df.index) : DateLt(start, df.index[k]) /\ DateLe(df.index[k], end)}

C1_ExtractDaterangeExact ==
    ret.op = "extract_daterange" =>
        LET pos == Ascending(InRange(ret.args.start_date, ret.args.end_date))
        IN  /\ ret.value.columns = df.columns
            /\ Len(ret.value.index) = Len(pos)
            /\ Len(ret.value.rows) = Len(pos)
            /\ \A k \in 1..Len(pos) :
                  /\ ret.value.index[k] = df.index[pos[k]]
                  /\ ret.value.rows[k] = df.rows[pos[k]]

\* a table with a row dated start and a later row dated end has been filtered
C1_Witness ==
    /\ ret.op = "extract_daterange"
    /\ DateLt(ret.args.start_date, ret.args.end_date)
    /\ \E i, j \in 1..Len(df.index) :
          /\ df.index[i] = ret.args.start_date
          /\ df.index[j] = ret.args.end_date
    /\ Len(ret.value.rows) >= 1
    /\ Len(ret.value.rows) < Len(df.rows)

(***************************************************************************)
(* C2: preprocess_data removes the position of the first column name that  *)
(* is equal to the dropdown tag, and only that position, from both the     *)
(* labels and the values: for every label list that contains the tag, the  *)
(* returned labels are the input labels without that one entry, the        *)
(* returned values are the row's values without the entry at the same      *)
(* position.                                                               *)
(***************************************************************************)
EqualPositions(labels, tag) == {i \in 1..Len(labels) : labels[i] = tag}

C2_RemovesFirstEqualLabel ==
    (/\ ret.op = "preprocess_data"
     /\ ret.status = "ok"
     /\ EqualPositions(ret.args.x_labels, ret.args.dropdown_tag) # {})
    => LET j == Nth(EqualPositions(ret.args.x_labels, ret.args.dropdown_tag), 1)
       IN  /\ ret.value[1] = WithoutCell(ret.args.x_labels, j)
           /\ ret.value[2] = WithoutCell(ret.args.initial_data, j)

(***************************************************************************)
(* C3: preprocess_data works on copies and not on the structures passed by *)
(* the caller: after a call returns, the label list object and the row     *)
(* object the caller passed in hold the same elements as before the call.  *)
(***************************************************************************)
C3_CallerObjectsUnchanged ==
    (ret.op = "preprocess_data" /\ ret.status = "ok")
    => /\ heap["x_labels"] = ret.args.x_labels
       /\ heap["initial_data"] = ret.args.initial_data

(***************************************************************************)
(* C4: preprocess_data fails with a not-found error, returning no result,  *)
(* whenever no label equals the dropdown tag; in that case neither the     *)
(* label list nor the values are changed.                                  *)
(***************************************************************************)
C4_AbsentTagFails ==
    (/\ ret.op = "preprocess_data"
     /\ EqualPositions(ret.args.x_labels, ret.args.dropdown_tag) = {})
    => /\ ret.status = "IndexError"
       /\ ret.line = 60
       /\ heap["x_labels"] = ret.args.x_labels
       /\ heap["initial_data"] = ret.args.initial_data

(***************************************************************************)
(* C5: for any table and any dropdown column present in it,                *)
(* gen_plotly_dict returns a list whose length equals the length of the    *)
(* input selector list and whose i-th entry carries the i-th selector as   *)
(* its label, for every selector list, repeated values and values that     *)
(* match no row included.  The one call that returns no list is the        *)
(* documented failure: rounding requested on a selected cell that is no    *)
(* number.                                                                 *)
(***************************************************************************)
MatchingRows(tag, selection) ==
    {k \in 1..Len(df.rows) :
        /\ df.rows[k][ColPos(df, tag)].kind # "nan"
        /\ df.rows[k][ColPos(df, tag)] = selection}

C5_OneEntryPerSelector ==
    (ret.op = "gen_plotly_dict" /\ HasCol(df, ret.args.dropdown_tag))
    => /\ ret.status \in {"ok", "ValueError"}
       /\ ret.status = "ValueError" =>
             /\ ret.args.precision # NoPrecision
             /\ \E i \in 1..Len(ret.args.selection_list) :
                   \E k \in MatchingRows(ret.args.dropdown_tag, ret.args.selection_list[i]) :
                      \E j \in 1..Len(df.rows[k]) :
                         /\ j # ColPos(df, ret.args.dropdown_tag)
                         /\ df.rows[k][j].kind = "text"
       /\ ret.status = "ok" =>
             /\ Len(ret.value) = Len(ret.args.selection_list)
             /\ \A i \in 1..Len(ret.value) :
                   ret.value[i].label = ret.args.selection_list[i]

\* a selector that matches no row of a table that has rows was given twice
C5_Witness ==
    /\ ret.op = "gen_plotly_dict"
    /\ ret.status = "ok"
    /\ HasCol(df, ret.args.dropdown_tag)
    /\ Len(df.rows) >= 1
    /\ \E i, j \in 1..Len(ret.args.selection_list) :
          /\ i < j
          /\ ret.args.selection_list[i] = ret.args.selection_list[j]
          /\ MatchingRows(ret.args.dropdown_tag, ret.args.selection_list[i]) = {}
          /\ ret.value[j].label = ret.args.selection_list[j]

(***************************************************************************)
(* C6: for each selector value, the entry gen_plotly_dict produces holds   *)
(* as plotted values exactly the rows of the table whose dropdown column   *)
(* equals that selector (all of them, in table order, none other), each    *)
(* with the dropdown column removed and the other columns unchanged; when  *)
(* no precision is given the display-text values are identical to those    *)
(* raw values.                                                             *)
(***************************************************************************)
C6_EntryHoldsMatchingRows ==
    (ret.op = "gen_plotly_dict" /\ ret.status = "ok")
    => \A i \in 1..Len(ret.value) :
          LET tag == ret.args.dropdown_tag
              pos == Ascending(MatchingRows(tag, ret.args.selection_list[i]))
          IN  /\ Len(ret.value[i].y) = Len(pos)
              /\ \A k \in 1..Len(pos) :
                    ret.value[i].y[k] = WithoutCell(df.rows[pos[k]], ColPos(df, tag))
              /\ ret.args.precision = NoPrecision => ret.value[i].text = ret.value[i].y

\* without precision, a selector matched some rows of a two-column table, not all
C6_Witness ==
    /\ ret.op = "gen_plotly_dict"
    /\ ret.status = "ok"
    /\ ret.args.precision = NoPrecision
    /\ Len(df.columns) >= 2
    /\ \E i \in 1..Len(ret.value) :
          /\ Len(ret.value[i].y) >= 1
          /\ Len(ret.value[i].y) < Len(df.rows)
          /\ ret.value[i].text = ret.value[i].y

(***************************************************************************)
(* C10: create_dropdown_waterfall builds one Selection Dictionary per      *)
(* distinct value of the dropdown column: the number of dropdown entries   *)
(* handed to the renderer equals the number of distinct values in the      *)
(* dropdown column and no label appears twice.                             *)
(***************************************************************************)
C10_OneEntryPerDistinctValue ==
    (ret.op = "create_dropdown_waterfall" /\ ret.status = "ok")
    => LET dicts_ar == ret.value[1].dicts_ar
           col == ColPos(df, ret.args.dropdown_tag)
       IN  /\ Len(dicts_ar) = Cardinality({df.rows[k][col] : k \in 1..Len(df.rows)})
           /\ \A i, j \in 1..Len(dicts_ar) :
                 dicts_ar[i].label = dicts_ar[j].label => i = j

(***************************************************************************)
(* C7: create_date_ranges(anchor, offset) returns, for every valid anchor  *)
(* date and every non-negative integer offset, the four dates              *)
(* anchor - offset, anchor, anchor + offset, anchor + 2*offset in that     *)
(* order, so that for offset > 0                                           *)
(* window1_start <= window1_end < window2_start <= window2_end.            *)
(***************************************************************************)
FourDates(anchor, offset, value) ==
    /\ Len(value) = 4
    /\ PlusDays(value[1], offset) = anchor
    /\ value[2] = anchor
    /\ value[3] = PlusDays(anchor, offset)
    /\ value[4] = PlusDays(anchor, 2 * offset)
    /\ offset > 0 =>
          /\ DateLe(value[1], value[2])
          /\ DateLt(value[2], value[3])
          /\ DateLe(value[3], value[4])

C7_FourDatesForEveryAnchor ==
    (/\ ret.op = "create_date_ranges"
     /\ ParsesAsDate(ret.args.target_date)
     /\ ret.args.date_range >= 0)
    => /\ ret.status = "ok"
       /\ FourDates(ret.args.target_date, ret.args.date_range, ret.value)

(***************************************************************************)
(* C7 as amended: the four dates are returned for every valid anchor date  *)
(* and every non-negative offset for which anchor - offset is not before   *)
(* 0001-01-01 and anchor + 2*offset is not after 9999-12-31; for the       *)
(* others the call raises OverflowError and returns nothing.  The dates of *)
(* the example: 2021-06-15 and 10 give 2021-06-05, 2021-06-15, 2021-06-25, *)
(* 2021-07-05.                                                             *)
(***************************************************************************)
InDateRange(anchor, offset) ==
    /\ DaysBeforeYear(anchor.year) + DaysBeforeMonth(anchor.year, anchor.month)
          + anchor.day - offset >= 1
    /\ DaysBeforeYear(anchor.year) + DaysBeforeMonth(anchor.year, anchor.month)
          + anchor.day + 2 * offset <= DaysBeforeYear(MAXYEAR + 1)

C7_FourDatesWithinDatetimeRange ==
    (/\ ret.op = "create_date_ranges"
     /\ ParsesAsDate(ret.args.target_date)
     /\ ret.args.date_range >= 0)
    => IF InDateRange(ret.args.target_date, ret.args.date_range)
       THEN /\ ret.status = "ok"
            /\ FourDates(ret.args.target_date, ret.args.date_range, ret.value)
            /\ (ret.args.target_date = Date(2021, 6, 15) /\ ret.args.date_range = 10)
                  => ret.value = << Date(2021, 6, 5), Date(2021, 6, 15),
                                    Date(2021, 6, 25), Date(2021, 7, 5) >>
       ELSE ret.status = "OverflowError" /\ ret.value = <<>>

\* four dates were returned for an offset > 0, the last in a later month than the first
C7_Witness ==
    /\ ret.op = "create_date_ranges"
    /\ ret.status = "ok"
    /\ ret.args.date_range > 0
    /\ ret.value[1].month # ret.value[4].month
    /\ DateLt(ret.value[3], ret.value[4])

(***************************************************************************)
(* C8: plot_compare_timeframes forwards to the renderer, for each of the   *)
(* two anchor dates, exactly the values of the named field taken from rows *)
(* whose index lies in the after window                                    *)
(* (anchor + offset, anchor + 2*offset], excluding values below the        *)
(* field's filter threshold and missing values; the first sequence is      *)
(* derived from the first anchor and the second from the second.           *)
(***************************************************************************)
Forwarded(anchor, offset, tag, threshold) ==
    LET rows == {k \in InRange(PlusDays(anchor, offset), PlusDays(anchor, 2 * offset)) :
                    /\ df.rows[k][ColPos(df, tag)].kind = "num"
                    /\ df.rows[k][ColPos(df, tag)].v >= threshold.v}
        pos == Ascending(rows)
    IN  [k \in 1..Len(pos) |->
            [index |-> df.index[pos[k]], value |-> df.rows[pos[k]][ColPos(df, tag)]]]

C8_ForwardsAfterWindows ==
    (ret.op = "plot_compare_timeframes" /\ ret.status = "ok")
    => /\ ret.value[1].x1 = Forwarded(ret.args.date1, ret.args.date_range,
                                      ret.args.tag, ret.args.threshold)
       /\ ret.value[1].x2 = Forwarded(ret.args.date2, ret.args.date_range,
                                      ret.args.tag, ret.args.threshold)

\* two anchors gave different sequences, and a row of the first window was dropped
C8_Witness ==
    /\ ret.op = "plot_compare_timeframes"
    /\ ret.status = "ok"
    /\ ret.args.date1 # ret.args.date2
    /\ ret.value[1].x1 # ret.value[1].x2
    /\ Len(ret.value[1].x1) >= 1
    /\ Len(ret.value[1].x1) <
          Cardinality(InRange(PlusDays(ret.args.date1, ret.args.date_range),
                              PlusDays(ret.args.date1, 2 * ret.args.date_range)))

(***************************************************************************)
(* C9: none of the functions mutate the source table in place: every call  *)
(* of gen_plotly_dict, create_dropdown_waterfall (and its preprocess_data  *)
(* on the table's column list), extract_daterange and                      *)
(* plot_compare_timeframes leaves the table's rows, index, column names    *)
(* and cell values as they were, so the same call of gen_plotly_dict made  *)
(* again yields the same output.                                           *)
(***************************************************************************)
C9_TableNeverMutated ==
    [][/\ df' = df
       /\ (ret.op = "gen_plotly_dict" /\ ret'.op = "gen_plotly_dict"
             /\ ret'.args = ret.args) => ret'.value = ret.value]_vars

\* a waterfall call returned with a label removed from its working copy of the columns
C9_Witness ==
    /\ ret.op = "create_dropdown_waterfall"
    /\ ret.status = "ok"
    /\ Len(df.rows) >= 1
    /\ Len(ret.value[1].x_labels) < Len(df.columns)

====
